---- MODULE Spec2Model ----
(***************************************************************************)
(* Personal library manager (src/library_manager.py).                      *)
(*                                                                         *)
(* The program is a Streamlit script: every user action reruns the script  *)
(* from the top, which (re)loads library.json into st.session_state        *)
(* (line 138) and then executes the branch of the selected view.  Each     *)
(* action below is one such script run.                                    *)
(*                                                                         *)
(* Text is a sequence of one-character strings, so that str.lower() and    *)
(* the substring test `in` are computed.  A Python value is a tagged       *)
(* record; a JSON document is a tree of tagged JSON values.                *)
(***************************************************************************)
EXTENDS Integers, Sequences, FiniteSets, TLC

VARIABLES
    library,   \* st.session_state.library
    file,      \* library.json
    now,       \* the wall clock, in seconds
    lastOp,    \* the last script run: operation, whether its function was called,
               \* the exception raised, the index passed to remove or toggle
    results,   \* the list search_books returned in the last run
    stats,     \* the dict get_library_stats returned in the last run
    before     \* history: library and file as they were when a toggle button
               \* was pressed, and how many times in a row (1 or 2) the button
               \* of that record has been pressed since

vars == <<library, file, now, lastOp, results, stats, before>>

----------------------------------------------------------------------------
(* Bounds of the model *)

\* largest collection the add form is allowed to build
MaxBooks == 2
\* last second the wall clock reaches
MaxClock == 1

----------------------------------------------------------------------------
(* Text *)

Digits == <<"0", "1", "2", "3", "4", "5", "6", "7", "8", "9">>

\* str.lower() on one character
LowerChar(c) ==
    CASE c = "A" -> "a"
      [] c = "D" -> "d"
      [] c = "H" -> "h"
      [] c = "T" -> "t"
      [] c = "U" -> "u"
      [] OTHER -> c

\* str.lower()
Lower(s) == [i \in 1..Len(s) |-> LowerChar(s[i])]

\* needle in hay, for two str
Contains(hay, needle) ==
    \E i \in 0..(Len(hay) - Len(needle)) :
        SubSeq(hay, i + 1, i + Len(needle)) = needle

----------------------------------------------------------------------------
(* Python values *)

PyStr(s)  == [t |-> "str",  s |-> s,    n |-> 0, b |-> FALSE]
PyInt(n)  == [t |-> "int",  s |-> <<>>, n |-> n, b |-> FALSE]
PyBool(b) == [t |-> "bool", s |-> <<>>, n |-> 0, b |-> b]
PyNone    == [t |-> "None", s |-> <<>>, n |-> 0, b |-> FALSE]

\* the value of st.session_state.library: a list of dicts, or whatever other
\* value json.loads returned
PyList(items) == [t |-> "list", items |-> items, n |-> 0]
PyNumber(n)   == [t |-> "int",  items |-> <<>>,  n |-> n]

\* truth value of a Python value (if title, if b["read_status"])
Truthy(v) ==
    CASE v.t = "str"  -> v.s # <<>>
      [] v.t = "int"  -> v.n # 0
      [] v.t = "bool" -> v.b
      [] OTHER -> FALSE

----------------------------------------------------------------------------
(* JSON documents *)

JString(s) == [j |-> "string", s |-> s,    n |-> 0]
JNumber(n) == [j |-> "number", s |-> <<>>, n |-> n]
JTrue      == [j |-> "true",   s |-> <<>>, n |-> 0]
JFalse     == [j |-> "false",  s |-> <<>>, n |-> 0]
JNull      == [j |-> "null",   s |-> <<>>, n |-> 0]

\* keys of a book dict in the order add_book inserts them
KeyOrder == <<"title", "author", "publication_year", "genre", "read_status", "added_date">>

\* json encoder, one scalar
ToJson(v) ==
    CASE v.t = "str"  -> JString(v.s)
      [] v.t = "int"  -> JNumber(v.n)
      [] v.t = "bool" -> IF v.b THEN JTrue ELSE JFalse
      [] OTHER -> JNull

\* json decoder, one scalar
FromJson(x) ==
    CASE x.j = "string" -> PyStr(x.s)
      [] x.j = "number" -> PyInt(x.n)
      [] x.j = "true"   -> PyBool(TRUE)
      [] x.j = "false"  -> PyBool(FALSE)
      [] OTHER -> PyNone

\* json encoder, one dict: its members in insertion order
DumpObject(book) == [i \in 1..Len(KeyOrder) |-> [k |-> KeyOrder[i], v |-> ToJson(book[KeyOrder[i]])]]

\* json decoder, one object: a dict; of two members with one key the later wins
LoadObject(members) ==
    [key \in {members[i].k : i \in 1..Len(members)} |->
        LET last == CHOOSE i \in 1..Len(members) :
                        /\ members[i].k = key
                        /\ \A m \in (i + 1)..Len(members) : members[m].k # key
        IN FromJson(members[last].v)]

\* the file library.json: absent, or its content
\*   blank   - nothing but white space
\*   garbage - text json.loads rejects
\*   json    - a JSON document: an array of objects, or a number
FileAbsent  == [kind |-> "absent",  top |-> "none",   elems |-> <<>>, n |-> 0]
FileBlank   == [kind |-> "blank",   top |-> "none",   elems |-> <<>>, n |-> 0]
FileGarbage == [kind |-> "garbage", top |-> "none",   elems |-> <<>>, n |-> 0]
FileArray(elems) == [kind |-> "json", top |-> "array",  elems |-> elems, n |-> 0]
FileNumber(n)    == [kind |-> "json", top |-> "number", elems |-> <<>>,  n |-> n]

\* json.dump(st.session_state.library, file, indent=4)
Dump(lib) ==
    IF lib.t = "list"
    THEN FileArray([i \in 1..Len(lib.items) |-> DumpObject(lib.items[i])])
    ELSE FileNumber(lib.n)

\* json.loads(content) of a JSON document
Loads(f) ==
    IF f.top = "array"
    THEN PyList([i \in 1..Len(f.elems) |-> LoadObject(f.elems[i])])
    ELSE PyNumber(f.n)

----------------------------------------------------------------------------
(* Store *)

save_library(lib) == Dump(lib)

\* the library and the file after load_library()
load_library(lib, f) ==
    IF f.kind = "absent"
    THEN [library |-> PyList(<<>>), file |-> f]
    ELSE IF f.kind = "blank"
    THEN [library |-> PyList(<<>>), file |-> f]
    ELSE IF f.kind = "garbage"
    THEN [library |-> PyList(<<>>), file |-> save_library(PyList(<<>>))]
    ELSE [library |-> Loads(f), file |-> f]

----------------------------------------------------------------------------
(* Clock *)

\* datetime.now().strftime("%Y-%m-%d %H:%M:%S"): the clock reading as text
strftime(t) == <<Digits[((t \div 10) % 10) + 1], Digits[(t % 10) + 1]>>

----------------------------------------------------------------------------
(* Catalog operations: the state after the call, and the exception raised *)

Outcome(lib, f, err) == [library |-> lib, file |-> f, err |-> err]

\* add_book without its save_library()
add_book_unsaved(lib, f, title, author, publication_year, genre, read_status, t) ==
    IF lib.t # "list"
    THEN Outcome(lib, f, "AttributeError")
    ELSE LET book == [title            |-> title,
                      author           |-> author,
                      publication_year |-> publication_year,
                      genre            |-> genre,
                      read_status      |-> read_status,
                      added_date       |-> PyStr(strftime(t))]
         IN Outcome(PyList(Append(lib.items, book)), f, "")

\* add_book with library.insert(0, book) for library.append(book)
add_book_prepend(lib, f, title, author, publication_year, genre, read_status, t) ==
    IF lib.t # "list"
    THEN Outcome(lib, f, "AttributeError")
    ELSE LET book == [title            |-> title,
                      author           |-> author,
                      publication_year |-> publication_year,
                      genre            |-> genre,
                      read_status      |-> read_status,
                      added_date       |-> PyStr(strftime(t))]
             inserted == PyList(<<book>> \o lib.items)
         IN Outcome(inserted, save_library(inserted), "")

add_book(lib, f, title, author, publication_year, genre, read_status, t) ==
    IF lib.t # "list"
    THEN Outcome(lib, f, "AttributeError")
    ELSE LET book == [title            |-> title,
                      author           |-> author,
                      publication_year |-> publication_year,
                      genre            |-> genre,
                      read_status      |-> read_status,
                      added_date       |-> PyStr(strftime(t))]
             appended == PyList(Append(lib.items, book))
         IN Outcome(appended, save_library(appended), "")


\* remove_book without its save_library()
remove_book_unsaved(lib, f, index) ==
    IF lib.t # "list"
    THEN Outcome(lib, f, "TypeError")
    ELSE LET n == Len(lib.items)
             pos == IF index < 0 THEN n + index ELSE index
         IN IF pos < 0 \/ pos >= n
            THEN Outcome(lib, f, "IndexError")
            ELSE Outcome(PyList([k \in 1..(n - 1) |->
                             IF k <= pos THEN lib.items[k] ELSE lib.items[k + 1]]), f, "")

\* remove_book with the index taken modulo the length of the list
remove_book_wrapping(lib, f, index) ==
    IF lib.t # "list"
    THEN Outcome(lib, f, "TypeError")
    ELSE LET n == Len(lib.items)
         IN IF n = 0
            THEN Outcome(lib, f, "IndexError")
            ELSE LET pos == index % n
                     kept == PyList([k \in 1..(n - 1) |->
                                 IF k <= pos THEN lib.items[k] ELSE lib.items[k + 1]])
                 IN Outcome(kept, save_library(kept), "")

\* del st.session_state.library[index]; save_library()
remove_book(lib, f, index) ==
    IF lib.t # "list"
    THEN Outcome(lib, f, "TypeError")
    ELSE LET n == Len(lib.items)
             \* a negative index counts from the end of the list
             pos == IF index < 0 THEN n + index ELSE index
         IN IF pos < 0 \/ pos >= n
            THEN Outcome(lib, f, "IndexError")
            ELSE LET kept == PyList([k \in 1..(n - 1) |->
                                 IF k <= pos THEN lib.items[k] ELSE lib.items[k + 1]])
                 IN Outcome(kept, save_library(kept), "")

\* the toggle button with new_status = True for new_status = not read_status
toggle_read_status_mark_read(lib, f, i) ==
    LET book == lib.items[i + 1]
        changed == PyList([lib.items EXCEPT ![i + 1] = [book EXCEPT !["read_status"] = PyBool(TRUE)]])
    IN Outcome(changed, save_library(changed), "")

\* the toggle button assigning new_status to every record of the list
toggle_read_status_all(lib, f, i) ==
    LET new_status == PyBool(~Truthy(lib.items[i + 1]["read_status"]))
        changed == PyList([k \in 1..Len(lib.items) |->
                       [lib.items[k] EXCEPT !["read_status"] = new_status]])
    IN Outcome(changed, save_library(changed), "")

\* the toggle button of record i (0-based) of the rendered list
toggle_read_status(lib, f, i) ==
    LET book == lib.items[i + 1]
        new_status == PyBool(~Truthy(book["read_status"]))
        changed == PyList([lib.items EXCEPT ![i + 1] = [book EXCEPT !["read_status"] = new_status]])
    IN Outcome(changed, save_library(changed), "")

\* Match with term for term.lower()
Match_case_sensitive(book, term, by) ==
    IF by \notin DOMAIN book THEN "KeyError"
    ELSE IF book[by].t # "str" THEN "AttributeError"
    ELSE IF Contains(Lower(book[by].s), term) THEN "yes"
    ELSE "no"

\* term.lower() in book[by].lower(), or the exception the expression raises
Match(book, term, by) ==
    IF by \notin DOMAIN book THEN "KeyError"
    ELSE IF book[by].t # "str" THEN "AttributeError"
    ELSE IF Contains(Lower(book[by].s), Lower(term)) THEN "yes"
    ELSE "no"

\* the list comprehension of search_books over books k..: the matches in
\* order, or the exception raised by the first book that raises one
RECURSIVE Scan(_, _, _, _, _)
Scan(items, k, term, by, acc) ==
    IF k > Len(items)
    THEN [err |-> "", results |-> acc]
    ELSE LET m == Match(items[k], term, by)
         IN IF m \in {"KeyError", "AttributeError"}
            THEN [err |-> m, results |-> <<>>]
            ELSE Scan(items, k + 1, term, by,
                      IF m = "yes" THEN Append(acc, items[k]) ELSE acc)

search_books(lib, term, by) ==
    IF lib.t # "list"
    THEN [err |-> "TypeError", results |-> <<>>]
    ELSE Scan(lib.items, 1, term, by, <<>>)

----------------------------------------------------------------------------
(* Statistics *)

IsDigit(c) == \E d \in 1..10 : Digits[d] = c

RECURSIVE DecimalValue(_)
DecimalValue(s) ==
    IF s = <<>> THEN 0
    ELSE LET d == CHOOSE d \in 1..10 : Digits[d] = s[Len(s)]
         IN 10 * DecimalValue(SubSeq(s, 1, Len(s) - 1)) + (d - 1)

\* int(v): the integer, or no integer (ValueError, TypeError)
IntOf(v) ==
    CASE v.t = "int"  -> [ok |-> TRUE, n |-> v.n]
      [] v.t = "bool" -> [ok |-> TRUE, n |-> IF v.b THEN 1 ELSE 0]
      [] v.t = "str"  ->
            LET neg  == v.s # <<>> /\ v.s[1] = "-"
                body == IF neg THEN Tail(v.s) ELSE v.s
            IN IF body # <<>> /\ \A i \in 1..Len(body) : IsDigit(body[i])
               THEN [ok |-> TRUE, n |-> IF neg THEN 0 - DecimalValue(body) ELSE DecimalValue(body)]
               ELSE [ok |-> FALSE, n |-> 0]
      [] OTHER -> [ok |-> FALSE, n |-> 0]

EmptyCounts == [k \in {} |-> 0]

\* m[k] = m.get(k, 0) + 1
Bump(m, k) ==
    IF k \in DOMAIN m
    THEN [m EXCEPT ![k] = @ + 1]
    ELSE [x \in DOMAIN m \cup {k} |-> IF x = k THEN 1 ELSE m[x]]

\* Decade rounding to the nearest multiple of 10
Decade_nearest(y) == ((y + 5) \div 10) * 10

\* (int(b["publication_year"]) // 10) * 10
Decade(y) == (y \div 10) * 10

\* the for loop of get_library_stats over books k..
RECURSIVE Tally(_, _, _)
Tally(items, k, acc) ==
    IF k > Len(items) THEN acc
    ELSE LET b == items[k]
             y == IntOf(b["publication_year"])
         IN Tally(items, k + 1,
                  [genres  |-> Bump(acc.genres, b["genre"]),
                   authors |-> Bump(acc.authors, b["author"]),
                   decades |-> IF y.ok THEN Bump(acc.decades, Decade(y.n)) ELSE acc.decades])

\* sum(1 for b in library if b["read_status"])
RECURSIVE CountRead(_, _)
CountRead(items, k) ==
    IF k > Len(items) THEN 0
    ELSE (IF Truthy(items[k]["read_status"]) THEN 1 ELSE 0) + CountRead(items, k + 1)

\* round(read / total * 100, 1) in tenths of a percent, 0 for an empty library
Percent(read, total) ==
    IF total > 0
    THEN LET q == (read * 1000) \div total
             r == (read * 1000) % total
         IN IF 2 * r > total \/ (2 * r = total /\ q % 2 = 1) THEN q + 1 ELSE q
    ELSE 0

NoStats ==
    [total |-> 0, read |-> 0, percent |-> 0,
     genres |-> EmptyCounts, authors |-> EmptyCounts, decades |-> EmptyCounts]

get_library_stats(lib) ==
    LET total == Len(lib.items)
        read == CountRead(lib.items, 1)
        counts == Tally(lib.items, 1,
                        [genres |-> EmptyCounts, authors |-> EmptyCounts, decades |-> EmptyCounts])
    IN [total |-> total, read |-> read, percent |-> Percent(read, total),
        genres |-> counts.genres, authors |-> counts.authors, decades |-> counts.decades]

----------------------------------------------------------------------------
(* Inputs *)

Dune == <<"D", "u", "n", "e">>
Ada  == <<"A", "d", "a">>
Hal  == <<"H", "a", "l">>
Tad  == <<"T", "a", "d">>
Art  == <<"A", "r", "t">>
Tech == <<"T", "e", "c", "h">>

\* what the add form can submit: a text_input may be left empty, number_input
\* yields an int, selectbox one of the genres, radio Read or Unread
TitleInputs  == {PyStr(<<>>), PyStr(Dune)}
AuthorInputs == {PyStr(<<>>), PyStr(Hal)}
YearInputs   == {PyInt(1965)}
GenreInputs  == {PyStr(Art)}

\* search terms typed by the user, and the fields search_books is called with:
\* the three of the selectbox, and others only a direct caller can pass
TermInputs == {<<"d", "U">>, <<"A">>}
UiFields == {"title", "author", "genre"}
FieldInputs == UiFields \cup {"added_date", "publication_year", "isbn"}

\* remove_book is called with the positions of the list and with indexes on
\* either side of them
IndexInputs == (0 - MaxBooks - 1)..MaxBooks

\* a book object as it stands in library.json
BookObject(title, author, year, genre, read, date) ==
    <<[k |-> "title",            v |-> JString(title)],
      [k |-> "author",           v |-> JString(author)],
      [k |-> "publication_year", v |-> year],
      [k |-> "genre",            v |-> JString(genre)],
      [k |-> "read_status",      v |-> IF read THEN JTrue ELSE JFalse],
      [k |-> "added_date",       v |-> JString(date)]>>

\* the states library.json is found in when the session starts: besides the
\* documents the program writes, documents edited by hand, whose
\* publication_year is a string, null or a negative number
InitialFiles ==
    {FileAbsent, FileBlank, FileGarbage, FileNumber(42), FileArray(<<>>),
     FileArray(<<BookObject(Dune, Hal, JNumber(1965), Art, TRUE, <<"0", "0">>)>>),
     FileArray(<<BookObject(Ada, Tad, JString(<<"1", "9", "8", "7">>), Tech, FALSE, <<"0", "0">>),
                 BookObject(Dune, Hal, JNull, Art, TRUE, <<"0", "0">>)>>),
     FileArray(<<BookObject(Ada, Hal, JNumber(0 - 5), Art, FALSE, <<"0", "0">>)>>)}

----------------------------------------------------------------------------
(* The session *)

Op(op, done, err, index) == [op |-> op, done |-> done, err |-> err, index |-> index]

NoSnapshot == [library |-> PyList(<<>>), file |-> FileAbsent, toggles |-> 0]

\* lines 131-132: a new session starts with an empty library
Init ==
    /\ library = PyList(<<>>)
    /\ file \in InitialFiles
    /\ now = 0
    /\ lastOp = Op("start", FALSE, "", 0)
    /\ results = <<>>
    /\ stats = NoStats
    /\ before = NoSnapshot

\* a page has been rendered, so that its form and buttons can be used
Rendered == lastOp.op # "start"

\* time passes
Tick ==
    /\ now < MaxClock
    /\ now' = now + 1
    /\ UNCHANGED <<library, file, lastOp, results, stats, before>>

\* a run that shows the View Library page: load_library() (line 138) and the
\* rendering of the list (lines 168-173), which fails on a library that is
\* no list
ViewLibrary ==
    LET ld == load_library(library, file)
    IN /\ library' = ld.library
       /\ file' = ld.file
       /\ lastOp' = Op("load", TRUE,
                       IF ld.library.t # "list" /\ ld.library.n # 0 THEN "TypeError" ELSE "", 0)
       /\ results' = <<>>
       /\ stats' = NoStats
       /\ before' = NoSnapshot
       /\ UNCHANGED now

\* a run that submits the add form (lines 153-166)
AddBook(title, author, year, genre, status) ==
    LET ld == load_library(library, file)
        submit == Truthy(title) /\ Truthy(author)
        out == IF submit
               THEN add_book(ld.library, ld.file, title, author, year, genre, status, now)
               ELSE Outcome(ld.library, ld.file, "")
    IN /\ Rendered
       /\ Len(ld.library.items) < MaxBooks
       /\ library' = out.library
       /\ file' = out.file
       /\ lastOp' = Op("add", submit, out.err, 0)
       /\ results' = <<>>
       /\ stats' = NoStats
       /\ before' = NoSnapshot
       /\ UNCHANGED now

\* a run in which remove_book(index) is called (lines 187-189); st.rerun()
\* follows when it returns, and the rerun loads the library again
RemoveBook(index) ==
    LET ld == load_library(library, file)
        out == remove_book(ld.library, ld.file, index)
        rerun == load_library(out.library, out.file)
    IN /\ Rendered
       /\ library' = IF out.err = "" THEN rerun.library ELSE out.library
       /\ file' = IF out.err = "" THEN rerun.file ELSE out.file
       /\ lastOp' = Op("remove", TRUE, out.err, index)
       /\ results' = <<>>
       /\ stats' = NoStats
       /\ before' = NoSnapshot
       /\ UNCHANGED now

\* a run in which the toggle button of record i is pressed (lines 190-196),
\* with the rerun that follows
ToggleReadStatus(i) ==
    LET ld == load_library(library, file)
        out == toggle_read_status(ld.library, ld.file, i)
        rerun == load_library(out.library, out.file)
    IN /\ Rendered
       /\ ld.library.t = "list"
       /\ i < Len(ld.library.items)
       /\ library' = rerun.library
       /\ file' = rerun.file
       /\ lastOp' = Op("toggle", TRUE, "", i)
       /\ results' = <<>>
       /\ stats' = NoStats
       /\ before' = IF lastOp.op = "toggle" /\ lastOp.index = i /\ before.toggles = 1
                    THEN [before EXCEPT !.toggles = 2]
                    ELSE [library |-> library, file |-> file, toggles |-> 1]
       /\ UNCHANGED now

\* a run in which search_books(term, by) is called (lines 198-203)
SearchBooks(term, by) ==
    LET ld == load_library(library, file)
        found == search_books(ld.library, term, by)
    IN /\ Rendered
       /\ term # <<>>
       /\ library' = ld.library
       /\ file' = ld.file
       /\ lastOp' = Op("search", TRUE, found.err, 0)
       /\ results' = found.results
       /\ stats' = NoStats
       /\ before' = NoSnapshot
       /\ UNCHANGED now

\* a run that shows the Library Stats page (lines 217-222)
LibraryStats ==
    LET ld == load_library(library, file)
        isList == ld.library.t = "list"
        shown == IF isList THEN ld.library.items # <<>> ELSE ld.library.n # 0
    IN /\ Rendered
       /\ library' = ld.library
       /\ file' = ld.file
       /\ lastOp' = Op("stats", shown, IF shown /\ ~isList THEN "TypeError" ELSE "", 0)
       /\ results' = <<>>
       /\ stats' = IF shown /\ isList THEN get_library_stats(ld.library) ELSE NoStats
       /\ before' = NoSnapshot
       /\ UNCHANGED now

Next ==
    \/ Tick
    \/ ViewLibrary
    \/ \E title \in TitleInputs, author \in AuthorInputs, year \in YearInputs,
          genre \in GenreInputs, status \in BOOLEAN :
          AddBook(title, author, year, genre, PyBool(status))
    \/ \E index \in IndexInputs : RemoveBook(index)
    \/ \E i \in 0..(MaxBooks - 1) : ToggleReadStatus(i)
    \/ \E term \in TermInputs, by \in FieldInputs : SearchBooks(term, by)
    \/ LibraryStats

Spec == Init /\ [][Next]_vars

----------------------------------------------------------------------------
(* Properties *)

\* s without its element at position p (1-based)
WithoutAt(s, p) == SubSeq(s, 1, p - 1) \o SubSeq(s, p + 1, Len(s))

\* C1: each time add, remove or toggle has completed, library.json decodes
\* to exactly the in-memory collection: same records, same field values,
\* same order.
C1_FileDecodesToLibrary ==
    (lastOp.op \in {"add", "remove", "toggle"} /\ lastOp.done /\ lastOp.err = "")
        => /\ file.kind = "json"
           /\ file.top = "array"
           /\ Len(file.elems) = Len(library.items)
           /\ \A k \in 1..Len(file.elems) :
                 \A m \in 1..Len(file.elems[k]) :
                     library.items[k][file.elems[k][m].k] = FromJson(file.elems[k][m].v)
           /\ Loads(file) = library

C1_Witness ==
    /\ lastOp.op = "remove"
    /\ lastOp.err = ""
    /\ library.items # <<>>

\* C2: when load finds a file whose content is no parseable collection
\* document, the in-memory collection is empty afterwards and the file has
\* been overwritten with an empty collection.
C2_InvalidFileIsReset ==
    [][(ViewLibrary /\ (file.kind = "garbage" \/ (file.kind = "json" /\ file.top # "array")))
          => (library' = PyList(<<>>) /\ file' = FileArray(<<>>))]_vars

\* C3: add followed by load from the persisted state yields the collection
\* the add started from, in order, followed by one record that carries the
\* given title, author, year, genre and read_status and the added_date
\* stamped at the time of the add.
C3_AddThenLoad ==
    [][\A title \in TitleInputs, author \in AuthorInputs, year \in YearInputs,
          genre \in GenreInputs, status \in BOOLEAN :
          (/\ lastOp'.op = "add"
           /\ library.t = "list"
           /\ title.s # <<>>
           /\ author.s # <<>>
           /\ AddBook(title, author, year, genre, PyBool(status)))
          => LET C == library.items
                 R == load_library(library', file').library
             IN /\ R.t = "list"
                /\ Len(R.items) = Len(C) + 1
                /\ SubSeq(R.items, 1, Len(C)) = C
                /\ R.items[Len(C) + 1] =
                       [title |-> title, author |-> author, publication_year |-> year,
                        genre |-> genre, read_status |-> PyBool(status),
                        added_date |-> PyStr(strftime(now))]]_vars

C3_Witness ==
    /\ lastOp.op = "add"
    /\ lastOp.done
    /\ lastOp.err = ""
    /\ Len(library.items) = 2

C5_EveryIndexOutsidePositionsFails ==
    [][\A index \in IndexInputs :
          (/\ lastOp'.op = "remove"
           /\ library.t = "list"
           /\ (index < 0 \/ index >= Len(library.items))
           /\ RemoveBook(index))
          => (lastOp'.err = "IndexError" /\ library' = library /\ file' = file)]_vars

\* C5 as amended: remove(index) with index >= N or index < -N fails with an
\* index error and changes neither the collection nor the file; an index
\* -N..-1 counts from the end and removes the record at position N + index.
C5_RemoveOutOfRange ==
    [][\A index \in IndexInputs :
          (lastOp'.op = "remove" /\ library.t = "list" /\ RemoveBook(index))
          => LET N == Len(library.items)
             IN /\ (index >= N \/ index < 0 - N)
                      => (lastOp'.err = "IndexError" /\ library' = library /\ file' = file)
                /\ (0 - N <= index /\ index < 0)
                      => /\ lastOp'.err = ""
                         /\ library'.items = WithoutAt(library.items, N + index + 1)
                         /\ Loads(file') = library']_vars

C5_Witness ==
    /\ lastOp.op = "remove"
    /\ lastOp.err = "IndexError"
    /\ lastOp.index < 0
    /\ library.items # <<>>

\* C6: pressing the toggle button of one record twice in succession returns
\* its read_status to the original value and leaves the collection and the
\* file equal to what they were before the first press.
C6_ToggleTwiceRestores ==
    before.toggles = 2
        => /\ library = before.library
           /\ file = before.file
           /\ library.items[lastOp.index + 1]["read_status"]
                  = before.library.items[lastOp.index + 1]["read_status"]

C6_Witness ==
    /\ before.toggles = 2
    /\ lastOp.index = 1
    /\ Len(library.items) = 2

\* term is a substring of text when both are compared case-insensitively
ContainsIgnoringCase(text, term) ==
    \E a \in 1..(Len(text) + 1), z \in 0..Len(text) :
        /\ z - a + 1 = Len(term)
        /\ \A k \in 1..Len(term) : LowerChar(text[a + k - 1]) = LowerChar(term[k])

\* C7: search(term, field) with field title, author or genre returns exactly
\* the records whose field contains term case-insensitively, in collection
\* order, and modifies neither the collection nor the file.
C7_SearchExactSubsequence ==
    [][\A term \in TermInputs, by \in UiFields :
          (lastOp'.op = "search" /\ library.t = "list" /\ SearchBooks(term, by))
          => /\ lastOp'.err = ""
             /\ results' = SelectSeq(library.items,
                                     LAMBDA book : ContainsIgnoringCase(book[by].s, term))
             /\ library' = library
             /\ file' = file]_vars

C7_Witness ==
    /\ lastOp.op = "search"
    /\ lastOp.err = ""
    /\ results # <<>>
    /\ Len(results) < Len(library.items)

\* C8: search(term, field) fails whenever field is not title, author or
\* genre, for every collection; it never returns a result sequence.
C8_UnsupportedFieldFails ==
    [][\A term \in TermInputs, by \in FieldInputs \ UiFields :
          (lastOp'.op = "search" /\ SearchBooks(term, by)) => lastOp'.err # ""]_vars

RECURSIVE SumCounts(_)
SumCounts(m) ==
    IF DOMAIN m = {} THEN 0
    ELSE LET k == CHOOSE k \in DOMAIN m : TRUE
         IN m[k] + SumCounts([x \in DOMAIN m \ {k} |-> m[x]])

\* C9: decades maps each multiple of 10 to the number of records whose
\* publication_year is an integer y with 10*floor(y/10) equal to it; records
\* whose publication_year is no integer are left out of decades only: total
\* is the number of records, read the number with read_status true, the
\* genre and the author counts sum to total, and the decade counts sum to
\* total minus the number of skipped records.
C9_StatsCounts ==
    (lastOp.op = "stats" /\ lastOp.done /\ lastOp.err = "")
        => LET items == library.items
               positions == 1..Len(items)
               year(k) == IntOf(items[k]["publication_year"])
               counted == {k \in positions : year(k).ok}
               bucket(k) == year(k).n - (year(k).n % 10)
           IN /\ stats.total = Len(items)
              /\ stats.read = Cardinality({k \in positions : items[k]["read_status"] = PyBool(TRUE)})
              /\ DOMAIN stats.decades = {bucket(k) : k \in counted}
              /\ \A d \in DOMAIN stats.decades :
                    /\ d % 10 = 0
                    /\ stats.decades[d] = Cardinality({k \in counted : bucket(k) = d})
              /\ SumCounts(stats.genres) = stats.total
              /\ SumCounts(stats.authors) = stats.total
              /\ SumCounts(stats.decades) = stats.total - Cardinality(positions \ counted)

C9_Witness ==
    /\ lastOp.op = "stats"
    /\ lastOp.done
    /\ lastOp.err = ""
    /\ DOMAIN stats.decades # {}
    /\ SumCounts(stats.decades) < stats.total

\* C10: no run changes title, author, publication_year, genre or added_date
\* of a record; toggle(i) changes only read_status of the record at position
\* i and leaves the length, the order and every other record unchanged; a
\* record leaves the collection only in a remove, and only one at a time.
C10_RecordsImmutable ==
    [][Rendered =>
          \/ library' = library
          \/ /\ lastOp'.op = "add"
             /\ Len(library'.items) = Len(library.items) + 1
             /\ SubSeq(library'.items, 1, Len(library.items)) = library.items
          \/ /\ lastOp'.op = "remove"
             /\ \E p \in 1..Len(library.items) : library'.items = WithoutAt(library.items, p)
          \/ /\ lastOp'.op = "toggle"
             /\ Len(library'.items) = Len(library.items)
             /\ \A k \in 1..Len(library.items) :
                   /\ k # lastOp'.index + 1 => library'.items[k] = library.items[k]
                   /\ \A key \in DOMAIN library.items[k] \ {"read_status"} :
                         library'.items[k][key] = library.items[k][key]
                   /\ DOMAIN library'.items[k] = DOMAIN library.items[k]]_vars

C10_Witness ==
    /\ lastOp.op = "toggle"
    /\ lastOp.index = 0
    /\ Len(library.items) = 2
    /\ before.toggles = 1
    /\ library.items[1]["read_status"] # before.library.items[1]["read_status"]

====
